---- MODULE Spec2Model ----
(***************************************************************************)
(* A model of vssh (src/src/bin/vssh.rs): one turn of the read-eval loop   *)
(* of main, the run of execute_line it starts in the orchestrating         *)
(* process, and the children that run forks.                               *)
(*                                                                         *)
(* Text is a sequence of one-character strings.  The source's indices are  *)
(* 0-based and are kept: segment i of the source is segments[i + 1] here,  *)
(* and the child forked for segment i is child[i]; its index also stands   *)
(* for its process identifier.                                             *)
(***************************************************************************)
EXTENDS Naturals, Sequences, FiniteSets

\* The longest pipeline the model runs, in segments.
MaxSegs == 3

\* The longest text the parser is run on, in characters.
MaxLineLen == 5

VARIABLES
    input,        \* main: the text read from the operator (line 20)
    pc,           \* the orchestrating process's position
    line,         \* execute_line: its argument line
    background,   \* execute_line: its argument background
    segments,     \* execute_line: segments (line 58)
    input_file,   \* execute_line: input_file, <<>> is None, <<f>> is Some(f)
    output_file,  \* execute_line: output_file, likewise
    pipes,        \* execute_line: pipes, the channels created so far
    i,            \* execute_line: the index of the loop the parent is in
    child_pids,   \* execute_line: child_pids
    parentFds,    \* the channel descriptors open in the orchestrating process
    closeCount,   \* how often the parent has closed each channel descriptor
    waitsIssued,  \* how many waitpid calls of the parent have returned
    waited,       \* the handles those calls were made on, in order
    reports,      \* the termination reports printed (lines 172-190)
    started,      \* the "Started background process" lines printed (line 153)
    result,       \* what execute_line returned in the parent, and why
    child         \* the forked processes, by segment index

vars == << input, pc, line, background, segments, input_file, output_file,
           pipes, i, child_pids, parentFds, closeCount, waitsIssued, waited,
           reports, started, result, child >>

Idx == 0 .. (MaxSegs - 1)
Chans == 0 .. (MaxSegs - 2)

(***************************************************************************)
(* Text: str::trim, str::split, str::contains, str::split_whitespace.      *)
(***************************************************************************)
IsWs(c) == c = " "

RECURSIVE TrimStart(_)
TrimStart(s) ==
    IF s # << >> /\ IsWs(Head(s)) THEN TrimStart(Tail(s)) ELSE s

RECURSIVE TrimEnd(_)
TrimEnd(s) ==
    IF s # << >> /\ IsWs(s[Len(s)]) THEN TrimEnd(SubSeq(s, 1, Len(s) - 1)) ELSE s

Trim(s) == TrimEnd(TrimStart(s))

Contains(s, c) == \E k \in 1 .. Len(s) : s[k] = c

\* The positions of c in s, and the k-th of them in increasing order.
Positions(s, c) == { k \in 1 .. Len(s) : s[k] = c }

NthPosition(s, c, k) ==
    CHOOSE p \in Positions(s, c) : Cardinality({ q \in Positions(s, c) : q < p }) = k - 1

\* str::split(c): the pieces between the occurrences of c, one more than
\* there are occurrences; never empty.
Split(s, c) ==
    [k \in 1 .. (Cardinality(Positions(s, c)) + 1) |->
        SubSeq(s,
               IF k = 1 THEN 1 ELSE NthPosition(s, c, k - 1) + 1,
               IF k = Cardinality(Positions(s, c)) + 1 THEN Len(s)
               ELSE NthPosition(s, c, k) - 1)]

MapTrim(parts) == [k \in 1 .. Len(parts) |-> Trim(parts[k])]

EndsWith(s, c) == s # << >> /\ s[Len(s)] = c

RECURSIVE TrimEndMatches(_, _)
TrimEndMatches(s, c) ==
    IF EndsWith(s, c) THEN TrimEndMatches(SubSeq(s, 1, Len(s) - 1), c) ELSE s

\* The first whitespace-delimited word of a text that starts with none.
RECURSIVE WordLen(_)
WordLen(s) == IF s = << >> \/ IsWs(Head(s)) THEN 0 ELSE 1 + WordLen(Tail(s))

RECURSIVE SplitWhitespace(_)
SplitWhitespace(s) ==
    LET t == TrimStart(s)
    IN  IF t = << >> THEN << >>
        ELSE LET w == WordLen(t)
             IN  << SubSeq(t, 1, w) >> \o SplitWhitespace(SubSeq(t, w + 1, Len(t)))

externalize(command) == SplitWhitespace(command)

(***************************************************************************)
(* main, lines 21-46: what one turn of the loop does with the text read.   *)
(***************************************************************************)
IsExit(s) == s = << "e", "x", "i", "t" >>

StartsWithCd(s) == Len(s) >= 3 /\ SubSeq(s, 1, 3) = << "c", "d", " " >>

\* Lines 42-46: the line handed to execute_line, and the background flag.
MainLine(trimmed) ==
    IF EndsWith(trimmed, "&") THEN Trim(TrimEndMatches(trimmed, "&")) ELSE trimmed

MainBackground(trimmed) == EndsWith(trimmed, "&")

(***************************************************************************)
(* execute_line, lines 58-78: segments and redirection targets.            *)
(***************************************************************************)
\* The split with the empty segments filtered out.
SplitSegments_DropEmpty(l) ==
    SelectSeq(MapTrim(Split(l, "|")), LAMBDA seg : seg # << >>)

SplitSegments(l) == MapTrim(Split(l, "|"))

\* Lines 64-69, on the segments of line 58.
InputParts(segs) == MapTrim(Split(segs[1], "<"))

StripInput(segs) ==
    IF Contains(segs[1], "<") THEN [segs EXCEPT ![1] = InputParts(segs)[1]] ELSE segs

\* The input target taken from the last part of the split.
InputFile_LastPart(segs) ==
    IF Contains(segs[1], "<")
    THEN << InputParts(segs)[Len(InputParts(segs))] >>
    ELSE << >>

InputFile(segs) ==
    IF Contains(segs[1], "<") THEN << InputParts(segs)[2] >> ELSE << >>

\* Lines 72-78, on the segments lines 64-69 leave; last is segments.len() - 1.
OutputParts(segs) == MapTrim(Split(segs[Len(segs)], ">"))

\* The last segment left as it is.
StripOutput_Keep(segs) == segs

StripOutput(segs) ==
    IF Contains(segs[Len(segs)], ">")
    THEN [segs EXCEPT ![Len(segs)] = OutputParts(segs)[1]]
    ELSE segs

OutputFile(segs) ==
    IF Contains(segs[Len(segs)], ">") THEN << OutputParts(segs)[2] >> ELSE << >>

(***************************************************************************)
(* Descriptors.  A channel is a pair of descriptors, its read end and its  *)
(* write end (line 88); a standard slot of a process refers to the         *)
(* terminal it inherited, to a file, or to a channel end put there by      *)
(* dup2.                                                                   *)
(***************************************************************************)
End(j, e) == [ch |-> j, end |-> e]

AllEnds == { End(j, e) : j \in Chans, e \in {"r", "w"} }

Tty == [kind |-> "tty", ch |-> 0, name |-> << >>]

FileSlot(f) == [kind |-> "file", ch |-> 0, name |-> f]

PipeSlot(j, e) == [kind |-> e, ch |-> j, name |-> << >>]

NoStatus == [kind |-> "none", code |-> 0]

Exited(c) == [kind |-> "Exited", code |-> c]

Signaled == [kind |-> "Signaled", code |-> 0]

NoChild ==
    [pc |-> "none", fds |-> {}, stdin |-> Tty, stdout |-> Tty,
     status |-> NoStatus, fail |-> "none", reaped |-> FALSE]

Alive(c) == child[c].pc \notin {"none", "exited"}

\* The processes that hold descriptor d open, as an original or on a slot.
ChildHolds(c, d) ==
    /\ Alive(c)
    /\ \/ d \in child[c].fds
       \/ child[c].stdin = PipeSlot(d.ch, d.end)
       \/ child[c].stdout = PipeSlot(d.ch, d.end)

ChildHolders(d) == { c \in Idx : ChildHolds(c, d) }

Held(d) == d \in parentFds \/ ChildHolders(d) # {}

\* A read on the standard input of child c returns end-of-stream.
StdinEof(c) ==
    /\ child[c].stdin.kind = "r"
    /\ ~Held(End(child[c].stdin.ch, "w"))

(***************************************************************************)
(* The command lines of the model: n segments, each the word a or empty,   *)
(* "< f" on the first, "> g" on the last, and a trailing "&".              *)
(***************************************************************************)
GenSeg(k, n, ne, hasIn, hasOut) ==
    (IF ne[k] THEN << "a" >> ELSE << >>)
    \o (IF k = 0 /\ hasIn THEN << " ", "<", " ", "f" >> ELSE << >>)
    \o (IF k = n - 1 /\ hasOut THEN << " ", ">", " ", "g" >> ELSE << >>)

RECURSIVE GenJoin(_, _, _, _, _)
GenJoin(k, n, ne, hasIn, hasOut) ==
    IF k = n - 1 THEN GenSeg(k, n, ne, hasIn, hasOut)
    ELSE GenSeg(k, n, ne, hasIn, hasOut) \o << " ", "|", " " >>
         \o GenJoin(k + 1, n, ne, hasIn, hasOut)

GenInput(n, ne, hasIn, hasOut, bg) ==
    GenJoin(0, n, ne, hasIn, hasOut) \o (IF bg THEN << " ", "&" >> ELSE << >>)

Init ==
    /\ \E n \in 1 .. MaxSegs : \E ne \in [0 .. (n - 1) -> BOOLEAN] :
         \E hasIn \in BOOLEAN, hasOut \in BOOLEAN, bg \in BOOLEAN :
             input = GenInput(n, ne, hasIn, hasOut, bg)
    /\ pc = "prompt"
    /\ line = << >>
    /\ background = FALSE
    /\ segments = << >>
    /\ input_file = << >>
    /\ output_file = << >>
    /\ pipes = << >>
    /\ i = 0
    /\ child_pids = << >>
    /\ parentFds = {}
    /\ closeCount = [d \in AllEnds |-> 0]
    /\ waitsIssued = 0
    /\ waited = << >>
    /\ reports = << >>
    /\ started = << >>
    /\ result = "none"
    /\ child = [c \in Idx |-> NoChild]

(***************************************************************************)
(* main, lines 13-52, in the orchestrating process: one turn of the loop.  *)
(* The model's inputs are never "exit" and never start with "cd ".         *)
(***************************************************************************)
runVars == << segments, input_file, output_file, pipes, i, child_pids, parentFds,
              closeCount, waitsIssued, waited, reports, started, result, child >>

\* Lines 21-25: an empty input starts the next turn.
MainContinue ==
    /\ pc = "prompt"
    /\ Trim(input) = << >>
    /\ pc' = "idle"
    /\ UNCHANGED << input, line, background, runVars >>

\* Lines 27-49: the call of execute_line.
MainExecute ==
    /\ pc = "prompt"
    /\ Trim(input) # << >>
    /\ ~IsExit(Trim(input))
    /\ ~StartsWithCd(Trim(input))
    /\ line' = MainLine(Trim(input))
    /\ background' = MainBackground(Trim(input))
    /\ pc' = "parse"
    /\ UNCHANGED << input, runVars >>

(***************************************************************************)
(* execute_line in the orchestrating process.                              *)
(***************************************************************************)
\* Lines 58-61: the split at the pipe separators; the result is never empty.
ParseSplit ==
    /\ pc = "parse"
    /\ segments' = SplitSegments(line)
    /\ pc' = "redirect_in"
    /\ UNCHANGED << input, line, background, input_file, output_file, pipes, i,
                    child_pids, parentFds, closeCount, waitsIssued, waited, reports,
                    started, result, child >>

\* Lines 64-69.
ParseInput ==
    /\ pc = "redirect_in"
    /\ segments' = StripInput(segments)
    /\ input_file' = InputFile(segments)
    /\ pc' = "redirect_out"
    /\ UNCHANGED << input, line, background, output_file, pipes, i, child_pids,
                    parentFds, closeCount, waitsIssued, waited, reports, started,
                    result, child >>

\* Lines 72-78.
ParseOutput ==
    /\ pc = "redirect_out"
    /\ segments' = StripOutput(segments)
    /\ output_file' = OutputFile(segments)
    /\ pc' = "pipes"
    /\ i' = 0
    /\ UNCHANGED << input, line, background, input_file, pipes, child_pids, parentFds,
                    closeCount, waitsIssued, waited, reports, started, result, child >>

\* Lines 82-89: libc::pipe succeeds, both descriptors are open in the parent.
PipeOk ==
    /\ pc = "pipes"
    /\ i < Len(segments) - 1
    /\ pipes' = Append(pipes, i)
    /\ parentFds' = parentFds \cup {End(i, "r"), End(i, "w")}
    /\ i' = i + 1
    /\ UNCHANGED << input, pc, line, background, segments, input_file, output_file,
                    child_pids, closeCount, waitsIssued, waited, reports, started,
                    result, child >>

\* Lines 85-87: libc::pipe fails, execute_line returns the error.
PipeFail ==
    /\ pc = "pipes"
    /\ i < Len(segments) - 1
    /\ result' = "ErrPipe"
    /\ pc' = "returned"
    /\ UNCHANGED << input, line, background, segments, input_file, output_file, pipes,
                    i, child_pids, parentFds, closeCount, waitsIssued, waited, reports,
                    started, child >>

\* Line 82: the range is exhausted.
PipesDone ==
    /\ pc = "pipes"
    /\ i = Len(segments) - 1
    /\ pc' = "fork"
    /\ i' = 0
    /\ UNCHANGED << input, line, background, segments, input_file, output_file, pipes,
                    child_pids, parentFds, closeCount, waitsIssued, waited, reports,
                    started, result, child >>

\* Lines 96-99: a segment without words starts no process.
ForkSkip ==
    /\ pc = "fork"
    /\ i < Len(segments)
    /\ externalize(segments[i + 1]) = << >>
    /\ i' = i + 1
    /\ UNCHANGED << input, pc, line, background, segments, input_file, output_file,
                    pipes, child_pids, parentFds, closeCount, waitsIssued, waited,
                    reports, started, result, child >>

\* Lines 101, 150-155: fork succeeds; the child starts with a copy of the
\* parent's descriptors, the parent records the handle.
ForkOk ==
    /\ pc = "fork"
    /\ i < Len(segments)
    /\ externalize(segments[i + 1]) # << >>
    /\ child' = [child EXCEPT ![i] = [NoChild EXCEPT !.pc = "wire", !.fds = parentFds]]
    /\ child_pids' = Append(child_pids, i)
    /\ started' = IF background THEN Append(started, i) ELSE started
    /\ i' = i + 1
    /\ UNCHANGED << input, pc, line, background, segments, input_file, output_file,
                    pipes, parentFds, closeCount, waitsIssued, waited, reports, result >>

\* Line 101: fork fails, the ? returns the error.
ForkFail ==
    /\ pc = "fork"
    /\ i < Len(segments)
    /\ externalize(segments[i + 1]) # << >>
    /\ result' = "ErrFork"
    /\ pc' = "returned"
    /\ UNCHANGED << input, line, background, segments, input_file, output_file, pipes,
                    i, child_pids, parentFds, closeCount, waitsIssued, waited, reports,
                    started, child >>

\* Line 95: the range is exhausted.
ForkDone ==
    /\ pc = "fork"
    /\ i = Len(segments)
    /\ pc' = "close"
    /\ i' = 0
    /\ UNCHANGED << input, line, background, segments, input_file, output_file, pipes,
                    child_pids, parentFds, closeCount, waitsIssued, waited, reports,
                    started, result, child >>

\* The close calls of one iteration with the read end closed twice and the
\* write end never.
ParentCloses_ReadEndTwice(j) == << End(pipes[j + 1], "r"), End(pipes[j + 1], "r") >>

\* Lines 161-164: the close calls of one iteration, on pipes[j].
ParentCloses(j) == << End(pipes[j + 1], "r"), End(pipes[j + 1], "w") >>

Occurrences(seq, d) == Cardinality({ k \in 1 .. Len(seq) : seq[k] = d })

Range(seq) == { seq[k] : k \in 1 .. Len(seq) }

\* Lines 160-165, one iteration.
ParentClosePipe ==
    /\ pc = "close"
    /\ i < Len(pipes)
    /\ closeCount' = [d \in AllEnds |-> closeCount[d] + Occurrences(ParentCloses(i), d)]
    /\ parentFds' = parentFds \ Range(ParentCloses(i))
    /\ i' = i + 1
    /\ UNCHANGED << input, pc, line, background, segments, input_file, output_file,
                    pipes, child_pids, waitsIssued, waited, reports, started, result,
                    child >>

\* Line 160: the loop over pipes is over.
CloseDone ==
    /\ pc = "close"
    /\ i = Len(pipes)
    /\ pc' = "wait"
    /\ i' = 0
    /\ UNCHANGED << input, line, background, segments, input_file, output_file, pipes,
                    child_pids, parentFds, closeCount, waitsIssued, waited, reports,
                    started, result, child >>

\* A wait that returns at once, whether or not the child has terminated.
WaitReturns_NoHang(c) == TRUE

\* Line 170: waitpid(pid, None) blocks until the child has terminated.
WaitReturns(c) == child[c].pc = "exited"

\* Lines 170-191: waitpid returns once the child has terminated; the report.
WaitOk ==
    /\ pc = "wait"
    /\ ~background
    /\ i < Len(child_pids)
    /\ LET c == child_pids[i + 1]
       IN  /\ WaitReturns(c)
           /\ ~child[c].reaped
           /\ child' = [child EXCEPT ![c].reaped = TRUE]
           /\ reports' = Append(reports, [pid |-> c, status |-> child[c].status])
           /\ waited' = Append(waited, c)
    /\ waitsIssued' = waitsIssued + 1
    /\ i' = i + 1
    /\ UNCHANGED << input, pc, line, background, segments, input_file, output_file,
                    pipes, child_pids, parentFds, closeCount, started, result >>

\* Line 170: waitpid fails, the ? returns the error.
WaitFail ==
    /\ pc = "wait"
    /\ ~background
    /\ i < Len(child_pids)
    /\ waited' = Append(waited, child_pids[i + 1])
    /\ waitsIssued' = waitsIssued + 1
    /\ result' = "ErrWait"
    /\ pc' = "returned"
    /\ UNCHANGED << input, line, background, segments, input_file, output_file, pipes,
                    i, child_pids, parentFds, closeCount, reports, started, child >>

\* Lines 168-195: nothing (more) to wait for.
ReturnOk ==
    /\ pc = "wait"
    /\ background \/ i = Len(child_pids)
    /\ result' = "Ok"
    /\ pc' = "returned"
    /\ UNCHANGED << input, line, background, segments, input_file, output_file, pipes,
                    i, child_pids, parentFds, closeCount, waitsIssued, waited, reports,
                    started, child >>

(***************************************************************************)
(* execute_line in the child forked for segment c (lines 102-149), and     *)
(* what becomes of the child afterwards.                                   *)
(***************************************************************************)
parentVars == << input, pc, line, background, segments, input_file, output_file,
                 pipes, i, child_pids, parentFds, closeCount, waitsIssued, waited,
                 reports, started, result >>

\* Lines 104-105 and 114-115: the child opens a redirection target.
OpensIn(c) == c = 0 /\ input_file # << >>

OpensOut(c) == c = Len(segments) - 1 /\ output_file # << >>

\* Every name can be opened, the empty one too.
CanOpen_Any(f) == TRUE

\* A file of that name can be opened or created; no file has the empty name.
CanOpen(f) == f # << >>

\* The standard input taken from the channel numbered by the children started
\* so far, not by the segment's index.
WiredStdin_BySpawnOrder(c) ==
    LET k == Cardinality({ s \in 0 .. (c - 1) : externalize(segments[s + 1]) # << >> })
    IN  IF k > 0 THEN PipeSlot(pipes[k], "r")
        ELSE IF OpensIn(c) THEN FileSlot(input_file[1])
        ELSE Tty

\* Lines 104-111 and 124-128: the standard input after the wiring.
WiredStdin(c) ==
    IF c > 0 THEN PipeSlot(pipes[c], "r")
    ELSE IF OpensIn(c) THEN FileSlot(input_file[1])
    ELSE Tty

\* Lines 114-121 and 131-135: the standard output after the wiring.
WiredStdout(c) ==
    IF c < Len(segments) - 1 THEN PipeSlot(pipes[c + 1], "w")
    ELSE IF OpensOut(c) THEN FileSlot(output_file[1])
    ELSE Tty

\* Line 106: File::open fails, the ? returns from execute_line in the child.
ChildOpenInFail(c) ==
    /\ child[c].pc = "wire"
    /\ OpensIn(c)
    /\ child' = [child EXCEPT ![c].pc = "prompt", ![c].fail = "open_in"]
    /\ UNCHANGED parentVars

\* Line 116: File::create fails, the ? returns from execute_line in the child.
ChildOpenOutFail(c) ==
    /\ child[c].pc = "wire"
    /\ OpensOut(c)
    /\ OpensIn(c) => CanOpen(input_file[1])
    /\ child' = [child EXCEPT ![c].pc = "prompt", ![c].fail = "open_out",
                              ![c].stdin = IF OpensIn(c) THEN FileSlot(input_file[1])
                                           ELSE child[c].stdin]
    /\ UNCHANGED parentVars

\* Lines 104-135: the opens succeed, the dup2 calls set the standard slots.
ChildWireOk(c) ==
    /\ child[c].pc = "wire"
    /\ OpensIn(c) => CanOpen(input_file[1])
    /\ OpensOut(c) => CanOpen(output_file[1])
    /\ child' = [child EXCEPT ![c].pc = "close", ![c].stdin = WiredStdin(c),
                              ![c].stdout = WiredStdout(c)]
    /\ UNCHANGED parentVars

\* The close loop of the child with the write ends left open.
ChildCloses_ReadEndsOnly(c) == { End(pipes[k], "r") : k \in 1 .. Len(pipes) }

\* Lines 138-143: the descriptors the child closes.
ChildCloses(c) == { End(pipes[k], e) : k \in 1 .. Len(pipes), e \in {"r", "w"} }

ChildCloseAll(c) ==
    /\ child[c].pc = "close"
    /\ child' = [child EXCEPT ![c].pc = "exec", ![c].fds = child[c].fds \ ChildCloses(c)]
    /\ UNCHANGED parentVars

\* Line 146: execvp replaces the image.
ChildExecOk(c) ==
    /\ child[c].pc = "exec"
    /\ child' = [child EXCEPT ![c].pc = "running"]
    /\ UNCHANGED parentVars

\* Line 146: execvp fails, the ? returns from execute_line in the child;
\* line 148 is not reached.
ChildExecFail(c) ==
    /\ child[c].pc = "exec"
    /\ child' = [child EXCEPT ![c].pc = "prompt", ![c].fail = "exec"]
    /\ UNCHANGED parentVars

\* The program of segment c terminates, by exit or by a signal.
ProgExit(c) ==
    /\ child[c].pc = "running"
    /\ \E st \in {Exited(0), Exited(1), Signaled} :
          child' = [child EXCEPT ![c].pc = "exited", ![c].status = st, ![c].fds = {}]
    /\ UNCHANGED parentVars

\* Lines 49-51 and 13-25 in a child that returned from execute_line: it
\* prints the error and takes another turn of main's loop.
ChildPromptLoop(c) ==
    /\ child[c].pc = "prompt"
    /\ UNCHANGED vars

\* Lines 28-30 and 53 in such a child: it reads "exit" and main returns Ok
\* (status 0); or lines 15-20: a ? in the loop returns an error (status 1).
ChildPromptExit(c) ==
    /\ child[c].pc = "prompt"
    /\ \E st \in {Exited(0), Exited(1)} :
          child' = [child EXCEPT ![c].pc = "exited", ![c].status = st, ![c].fds = {}]
    /\ UNCHANGED parentVars

Next ==
    \/ MainContinue
    \/ MainExecute
    \/ ParseSplit
    \/ ParseInput
    \/ ParseOutput
    \/ PipeOk
    \/ PipeFail
    \/ PipesDone
    \/ ForkSkip
    \/ ForkOk
    \/ ForkFail
    \/ ForkDone
    \/ ParentClosePipe
    \/ CloseDone
    \/ WaitOk
    \/ WaitFail
    \/ ReturnOk
    \/ \E c \in Idx : ChildOpenInFail(c)
    \/ \E c \in Idx : ChildOpenOutFail(c)
    \/ \E c \in Idx : ChildWireOk(c)
    \/ \E c \in Idx : ChildCloseAll(c)
    \/ \E c \in Idx : ChildExecOk(c)
    \/ \E c \in Idx : ChildExecFail(c)
    \/ \E c \in Idx : ProgExit(c)
    \/ \E c \in Idx : ChildPromptLoop(c)
    \/ \E c \in Idx : ChildPromptExit(c)

Spec == Init /\ [][Next]_vars

(***************************************************************************)
(* Scheduling: the kernel keeps running every process that can take a      *)
(* step.  A waitpid need not fail, a child in main's loop need not read    *)
(* "exit"; a program terminates once its standard input is at              *)
(* end-of-stream, and a program whose standard input is no channel         *)
(* terminates on its own.                                                  *)
(***************************************************************************)
ParentProgress ==
    \/ MainContinue \/ MainExecute
    \/ ParseSplit \/ ParseInput \/ ParseOutput
    \/ PipeOk \/ PipeFail \/ PipesDone
    \/ ForkSkip \/ ForkOk \/ ForkFail \/ ForkDone
    \/ ParentClosePipe \/ CloseDone
    \/ WaitOk \/ ReturnOk

ChildSetup(c) ==
    \/ ChildOpenInFail(c) \/ ChildOpenOutFail(c) \/ ChildWireOk(c)
    \/ ChildCloseAll(c)
    \/ ChildExecOk(c) \/ ChildExecFail(c)

ProgExitAtEof(c) == StdinEof(c) /\ ProgExit(c)

ProgExitNoPipe(c) == child[c].stdin.kind # "r" /\ ProgExit(c)

\* Every step below moves a process forward and none can be taken for ever,
\* so fairness for their disjunction is what fairness for each process gives.
Progress ==
    \/ ParentProgress
    \/ \E c \in Idx : ChildSetup(c)
    \/ \E c \in Idx : ProgExitAtEof(c)
    \/ \E c \in Idx : ProgExitNoPipe(c)

Fairness == WF_vars(Progress)

FairSpec == Spec /\ Fairness

(***************************************************************************)
(* Properties.                                                             *)
(***************************************************************************)
NonZeroExit(st) == st.kind = "Exited" /\ st.code # 0

Returned == pc = "returned"

\* The run got past pipe creation and the forks.
SetupSucceeded == result \in {"Ok", "ErrWait"}

\* The channel descriptors of the run: both ends of channels 0 .. n-2.
RunEnds == { End(j, e) : j \in 0 .. (Len(segments) - 2), e \in {"r", "w"} }

\* C1: a child whose execvp failed has terminated with a nonzero exit status;
\* it did not return from execute_line into main's loop.
C1_ExecFailureTerminatesChild ==
    \A c \in Idx :
        child[c].fail = "exec" =>
            child[c].pc = "exited" /\ NonZeroExit(child[c].status)

\* C2: a child that could not open its input file or create its output file
\* has terminated with a nonzero exit status and holds no channel descriptor.
C2_OpenFailureTerminatesChild ==
    \A c \in Idx :
        child[c].fail \in {"open_in", "open_out"} =>
            /\ child[c].pc = "exited"
            /\ NonZeroExit(child[c].status)
            /\ \A d \in AllEnds : ~ChildHolds(c, d)

\* A foreground run at its waits, every child past its opens, none of which
\* failed, and the execvp of some child failed.
C3_Precondition ==
    /\ pc = "wait"
    /\ ~background
    /\ \E c \in Idx : child[c].fail = "exec"
    /\ \A c \in Idx : child[c].pc # "wire" /\ child[c].fail \notin {"open_in", "open_out"}

\* C3: a foreground pipeline with a segment whose program cannot be executed
\* returns, and the report for that segment carries a nonzero exit status.
C3_FailedProgramDoesNotHang ==
    /\ C3_Precondition ~> Returned
    /\ [](\A k \in 1 .. Len(reports) :
            child[reports[k].pid].fail = "exec" => NonZeroExit(reports[k].status))

\* C4: in a foreground run that reached the waits, the number of waits issued
\* when execute_line returns is the number of spawned children, also when a
\* wait failed.
C4_WaitFailureDoesNotAbort ==
    (Returned /\ ~background /\ SetupSucceeded) => waitsIssued = Len(child_pids)

\* C5: when all pipe creations and forks succeed, the parent closes each of the
\* 2(n-1) channel descriptors exactly once, after the last fork and before the
\* first wait, and is left with none open.
C5_ParentClosesEachOnce ==
    /\ \A d \in AllEnds : closeCount[d] <= 1
    /\ (\E d \in AllEnds : closeCount[d] > 0) =>
            pc \in {"close", "wait", "returned"} /\ result \notin {"ErrPipe", "ErrFork"}
    /\ (waitsIssued > 0 \/ (Returned /\ SetupSucceeded)) =>
            /\ \A d \in RunEnds : closeCount[d] = 1
            /\ Cardinality({ d \in AllEnds : closeCount[d] = 1 }) = 2 * (Len(segments) - 1)
            /\ parentFds = {}

C5_Witness ==
    /\ Returned
    /\ result = "Ok"
    /\ Len(segments) = 3
    /\ Len(child_pids) = 3
    /\ waitsIssued = 3
    /\ Cardinality({ d \in AllEnds : closeCount[d] = 1 }) = 4

\* C6: when the creation of a channel fails, execute_line returns before any
\* process is spawned and the channels created earlier are closed in the parent.
C6_PipeFailureReleasesChannels ==
    result = "ErrPipe" => (child_pids = << >> /\ parentFds = {})

\* C7: when fork fails, execute_line returns with no channel descriptor of the
\* run open in the parent.
C7_ForkFailureReleasesChannels ==
    result = "ErrFork" => parentFds = {}

\* C8: a foreground run that reached the waits has, when it returns, waited on
\* every spawned handle once, in spawn order, and reported in that order.
C8_WaitsInSpawnOrder ==
    (Returned /\ ~background /\ SetupSucceeded) =>
        /\ waited = child_pids
        /\ \A a \in 1 .. Len(reports), b \in 1 .. Len(reports) :
               a < b => reports[a].pid < reports[b].pid

\* C9: a background run issues no wait, and when it returns it has reported
\* every spawned child and closed every channel descriptor in the parent.
C9_BackgroundReturns ==
    background =>
        /\ waitsIssued = 0
        /\ Returned => (started = child_pids /\ parentFds = {})

\* The line a < f > g.
C10_Line == << "a", " ", "<", " ", "f", " ", ">", " ", "g" >>

\* C10: "a < f > g" parses to the argument vector [a], input file f and
\* output file g, allocates no channel, and its child runs with standard
\* input from f and standard output to g.
C10_BothRedirections ==
    (line = C10_Line /\ pc \notin {"prompt", "parse", "redirect_in", "redirect_out"}) =>
        /\ externalize(segments[1]) = << << "a" >> >>
        /\ input_file = << << "f" >> >>
        /\ output_file = << << "g" >> >>
        /\ pipes = << >>
        /\ child[0].pc \in {"exec", "running"} =>
               /\ child[0].stdin = FileSlot(<< "f" >>)
               /\ child[0].stdout = FileSlot(<< "g" >>)

(***************************************************************************)
(* The parser on its own: main's turn and lines 58-78 of execute_line, on  *)
(* every text of at most MaxLineLen characters of the alphabet.            *)
(***************************************************************************)
Alphabet == {"a", "b", " ", "<", ">", "|", "&"}

Texts == UNION { [1 .. n -> Alphabet] : n \in 0 .. MaxLineLen }

ParseInit ==
    /\ input \in Texts
    /\ pc = "prompt"
    /\ line = << >>
    /\ background = FALSE
    /\ segments = << >>
    /\ input_file = << >>
    /\ output_file = << >>
    /\ pipes = << >>
    /\ i = 0
    /\ child_pids = << >>
    /\ parentFds = {}
    /\ closeCount = [d \in AllEnds |-> 0]
    /\ waitsIssued = 0
    /\ waited = << >>
    /\ reports = << >>
    /\ started = << >>
    /\ result = "none"
    /\ child = [c \in Idx |-> NoChild]

ParseNext ==
    \/ MainContinue
    \/ MainExecute
    \/ ParseSplit
    \/ ParseInput
    \/ ParseOutput

ParseSpec == ParseInit /\ [][ParseNext]_vars

\* The number of pipe separators of the line.
Separators == Cardinality(Positions(line, "|"))

\* line 58 has run.
Split58Done == pc \notin {"prompt", "idle", "parse"}

\* Lines 58-78 have run.
Parsed == pc \notin {"prompt", "idle", "parse", "redirect_in", "redirect_out"}

\* C11: a line with k pipe separators has k+1 segments, also after the
\* redirections are stripped and whatever segments are empty; never more than
\* k channels exist, and all k exist once the parent is past pipe creation,
\* so before any process is spawned.
C11_SegmentsAndChannels ==
    /\ Split58Done => Len(segments) = Separators + 1
    /\ Len(pipes) <= Separators
    /\ (pc \in {"fork", "close", "wait"} \/ child_pids # << >>
          \/ (Returned /\ result # "ErrPipe")) =>
            Len(pipes) = Separators

C11_Witness ==
    /\ Separators = 2
    /\ input_file # << >>
    /\ externalize(segments[2]) = << >>
    /\ Len(child_pids) = 2
    /\ Len(pipes) = 2

\* The trimmed text of s before its first character of cs, all of it when it
\* has none.
Before(s, cs) ==
    IF \E k \in 1 .. Len(s) : s[k] \in cs
    THEN Trim(SubSeq(s, 1, (CHOOSE p \in 1 .. Len(s) :
                               s[p] \in cs /\ \A q \in 1 .. (p - 1) : s[q] \notin cs) - 1))
    ELSE Trim(s)

\* No word of the argument vector of segment text seg holds the character c.
NoWordHolds(seg, c) ==
    \A k \in 1 .. Len(externalize(seg)) : ~Contains(externalize(seg)[k], c)

\* C12: once lines 58-78 have run, the argument vector of the first segment
\* holds no `<` and that of the last no `>` when the segment had one; either
\* is made of the text before the redirection character only, so the filename
\* after it is not in it; and stripping the stripped segments changes nothing.
C12_StrippingRemovesRedirection ==
    Parsed =>
        LET orig == SplitSegments(line)
            n == Len(segments)
        IN  /\ Contains(orig[1], "<") => NoWordHolds(segments[1], "<")
            /\ Contains(orig[n], ">") => NoWordHolds(segments[n], ">")
            /\ n = 1 => segments[1] = Before(orig[1], {"<", ">"})
            /\ n > 1 => /\ segments[1] = Before(orig[1], {"<"})
                        /\ segments[n] = Before(orig[n], {">"})
            /\ StripInput(segments) = segments
            /\ StripOutput(segments) = segments

C12_Witness ==
    /\ Parsed
    /\ input_file # << >>
    /\ output_file # << >>
    /\ externalize(segments[1]) # << >>

\* C13: a child at its execvp has the read end of channel c-1 on its standard
\* input when c > 0 (else the input file when there is one, else what it
\* inherited), the write end of channel c on its standard output when
\* c < n-1 (else the output file when there is one, else what it inherited),
\* and no other channel descriptor.
C13_WiringAtExec ==
    \A c \in Idx :
        child[c].pc = "exec" =>
            /\ child[c].stdin =
                  (IF c > 0 THEN PipeSlot(c - 1, "r")
                   ELSE IF input_file # << >> THEN FileSlot(input_file[1])
                   ELSE Tty)
            /\ child[c].stdout =
                  (IF c < Len(segments) - 1 THEN PipeSlot(c, "w")
                   ELSE IF output_file # << >> THEN FileSlot(output_file[1])
                   ELSE Tty)
            /\ child[c].fds = {}
            /\ \A d \in AllEnds :
                  ChildHolds(c, d) =>
                      \/ (c > 0 /\ d = End(c - 1, "r"))
                      \/ (c < Len(segments) - 1 /\ d = End(c, "w"))

C13_Witness ==
    /\ Len(segments) = 3
    /\ child[1].pc = "exec"
    /\ child[0].pc = "exec" /\ child[0].stdin.kind = "file"
    /\ child[2].pc = "exec" /\ child[2].stdout.kind = "file"

\* The parent is past its close loop (lines 160-165).
ParentClosed == pc = "wait" \/ (Returned /\ SetupSucceeded)

\* Child c has run its close loop (lines 138-143).
CloseStepDone(c) ==
    \/ child[c].pc \in {"exec", "running"}
    \/ child[c].pc \in {"prompt", "exited"} /\ child[c].fail \in {"none", "exec"}

AllCloseStepsDone == \A k \in 1 .. Len(child_pids) : CloseStepDone(child_pids[k])

SkippedSegs == { s \in 0 .. (Len(segments) - 1) : externalize(segments[s + 1]) = << >> }

NonEmptySegs == { s \in 0 .. (Len(segments) - 1) : externalize(segments[s + 1]) # << >> }

\* The channel ends a process for segment s would have used.
AdjacentEnds(s) ==
    (IF s > 0 THEN {End(s - 1, "r")} ELSE {}) \cup
    (IF s < Len(segments) - 1 THEN {End(s, "w")} ELSE {})

\* The loop of lines 95-157 has run to its end.
ForkLoopDone == pc \in {"close", "wait"} \/ (Returned /\ SetupSucceeded)

\* Child c is past its dup2 calls (lines 124-135).
Wired(c) ==
    \/ child[c].pc \in {"close", "exec", "running"}
    \/ child[c].pc = "prompt" /\ child[c].fail = "exec"

C15_Counts ==
    ForkLoopDone =>
        /\ Len(child_pids) = Cardinality(NonEmptySegs)
        /\ Range(child_pids) = NonEmptySegs
        /\ Len(pipes) = Len(segments) - 1
        /\ \A s \in SkippedSegs : child[s].pc = "none"

C15_IndexKept ==
    \A c \in Idx : Wired(c) =>
        /\ c > 0 => child[c].stdin = PipeSlot(c - 1, "r")
        /\ c < Len(segments) - 1 => child[c].stdout = PipeSlot(c, "w")

\* The claim's last clause as stated: closed by the parent, held by nobody.
C15_AdjacentEndFreeOnceParentClosed ==
    Split58Done =>
        \A s \in SkippedSegs : \A d \in AdjacentEnds(s) :
            (closeCount[d] > 0 /\ d \notin parentFds) => ~Held(d)

\* C15 as stated: a segment without words starts no process and keeps its
\* index, and a channel end next to it is held by no process as soon as the
\* parent has closed it.
C15_Original == C15_Counts /\ C15_IndexKept /\ C15_AdjacentEndFreeOnceParentClosed

\* C15, amended: a segment without words starts no process and keeps its
\* index (as many children as non-empty segments, n-1 channels, the child of
\* segment i on channels i-1 and i); a channel end next to a skipped segment
\* is held by no process once the parent has closed it and every spawned
\* child has run its own close loop.
C15_SkippedSegmentKeepsIndex ==
    /\ C15_Counts
    /\ C15_IndexKept
    /\ Split58Done =>
           \A s \in SkippedSegs : \A d \in AdjacentEnds(s) :
               (closeCount[d] > 0 /\ d \notin parentFds /\ ForkLoopDone /\ AllCloseStepsDone)
                   => ~Held(d)

C15_Witness ==
    /\ Len(segments) = 3
    /\ SkippedSegs = {0}
    /\ ParentClosed
    /\ AllCloseStepsDone
    /\ child[1].pc = "running"
    /\ child[1].stdin = PipeSlot(0, "r")
    /\ child[2].pc = "running"
    /\ closeCount[End(0, "w")] > 0

\* An open or the execvp failed in some child of the run.
SomeChildFailed == \E c \in Idx : child[c].fail # "none"

\* C16: under fair scheduling a foreground call of execute_line in which no
\* open and no execvp fails returns, given that a program ends once its
\* standard input is at end-of-stream and the first one ends on its own: the
\* waits in spawn order do not deadlock against the channels.
C16_ForegroundRunReturns ==
    (pc = "parse" /\ ~background) ~> (Returned \/ SomeChildFailed)

C16_Witness ==
    /\ Returned
    /\ result = "Ok"
    /\ ~background
    /\ ~SomeChildFailed
    /\ waited = << 0, 1, 2 >>
    /\ Len(reports) = 3
    /\ output_file # << >>

(***************************************************************************)
(* Every text of at most MaxLineLen characters with fewer than MaxSegs     *)
(* pipe separators, run through main and execute_line to the end.          *)
(***************************************************************************)
LineInit == ParseInit /\ Cardinality(Positions(input, "|")) < MaxSegs

LineSpec == LineInit /\ [][Next]_vars

\* The first segment of the line has a `<` with nothing but blanks up to the
\* next `<` or the end of the segment.
EmptyInputTarget ==
    LET s0 == Split(line, "|")[1]
    IN  /\ Contains(s0, "<")
        /\ Before(SubSeq(s0, NthPosition(s0, "<", 1) + 1, Len(s0)), {"<"}) = << >>

\* C17: parsing a line never fails: there is at least one segment, parts[0]
\* and parts[1] exist whenever lines 66-68 and 75-77 index them, and
\* execute_line does not return before the channels are made; a `<` with
\* no file name gives the empty name as the input target, and that fails
\* nowhere but in the child of the first segment, at its open.
C17_ParsingNeverFails ==
    /\ Split58Done => Len(segments) >= 1
    /\ (pc = "redirect_in" /\ Contains(segments[1], "<")) => Len(InputParts(segments)) >= 2
    /\ (pc = "redirect_out" /\ Contains(segments[Len(segments)], ">"))
           => Len(OutputParts(segments)) >= 2
    /\ pc \in {"redirect_in", "redirect_out", "pipes"} => result = "none"
    /\ (Parsed /\ EmptyInputTarget) => input_file = << << >> >>
    /\ input_file = << << >> >> =>
           /\ child[0].pc \in {"none", "wire", "prompt", "exited"}
           /\ child[0].stdin.kind # "file"
           /\ child[0].pc \in {"prompt", "exited"} => child[0].fail = "open_in"
           /\ \A c \in Idx : c # 0 => child[c].fail # "open_in"

C17_Witness ==
    /\ Returned
    /\ result = "Ok"
    /\ ~background
    /\ EmptyInputTarget
    /\ input_file = << << >> >>
    /\ segments = << << "a" >> >>
    /\ child[0].fail = "open_in"
    /\ child[0].reaped

\* The first segment of the line, as line 58 leaves it.
Segment0 == SplitSegments(line)[1]

\* C18: when segment 0 holds more than one `<`, the command is the trimmed
\* text before the first, the input target the trimmed text between the first
\* and the second, and nothing from the second `<` on is in either.
C18_OnlyFirstInputRedirection ==
    (pc \notin {"prompt", "idle", "parse", "redirect_in"}
        /\ Cardinality(Positions(Segment0, "<")) >= 2) =>
        LET p1 == NthPosition(Segment0, "<", 1)
            p2 == NthPosition(Segment0, "<", 2)
            command == Trim(SubSeq(Segment0, 1, p1 - 1))
        IN  /\ input_file = << Trim(SubSeq(Segment0, p1 + 1, p2 - 1)) >>
            /\ pc = "redirect_out" => segments[1] = command
            /\ Parsed => segments[1] =
                   (IF Len(segments) = 1 THEN Before(command, {">"}) ELSE command)
            /\ ~Contains(segments[1], "<")
            /\ ~Contains(input_file[1], "<")

C18_Witness ==
    /\ Parsed
    /\ line = << "a", "<", "b", "<", "a" >>
    /\ segments = << << "a" >> >>
    /\ input_file = << << "b" >> >>

\* C19: when execute_line returns Ok from a foreground run, every child it
\* started has terminated and has been waited for, and there are as many
\* termination reports as children.
C19_OkMeansAllReaped ==
    (Returned /\ result = "Ok" /\ ~background) =>
        /\ \A k \in 1 .. Len(child_pids) :
               child[child_pids[k]].pc = "exited" /\ child[child_pids[k]].reaped
        /\ \A c \in Idx : child[c].pc # "none" => c \in Range(child_pids)
        /\ Len(reports) = Len(child_pids)
        /\ \A k \in 1 .. Len(reports) : reports[k].pid = child_pids[k]

C19_Witness ==
    /\ Returned
    /\ result = "Ok"
    /\ ~background
    /\ Len(child_pids) = 3
    /\ Len(reports) = 3
    /\ \E c \in Idx : child[c].fail = "exec"
    /\ \E c \in Idx : child[c].status = Signaled
====
